---------------------------- MODULE Spec2Model ----------------------------
(***************************************************************************)
(* Climarisk backend: the /api/live-risk server-sent-event endpoint        *)
(* (app.py) and the live MERRA-2 pipeline it runs in a background thread   *)
(* (live_nasa_processor.py), with the cache directory the requests share.  *)
(*                                                                         *)
(* Every request has two processes: the generator event_stream (mpc) and   *)
(* the thread fetch_data (tpc).  The files of CACHE_DIR are shared by all  *)
(* requests.  The remote archive (earthaccess) is the environment: its     *)
(* login and its transfers succeed or fail nondeterministically, its       *)
(* catalogue is the fixed function Archive.                                *)
(***************************************************************************)
EXTENDS Integers, Sequences, FiniteSets, TLC

\* ------------------------------------------------------------ bounds
NumRequests == 2
MaxProgress == 2

Requests == 1..NumRequests

\* ------------------------------------------------------------ inputs
\* request.args.get(name) of a parameter the URL does not carry is None.
NoParam == "<None>"

\* The dates of the catalogue: one granule, two granules, no granule.
DateOne == "2020-07-15"
DateTwo == "2020-07-16"
DateNone == "1900-01-01"

\* The query strings a client sends.
Queries ==
    { [lat |-> NoParam, lon |-> "-75", date |-> DateOne],
      [lat |-> "40",    lon |-> NoParam, date |-> DateOne],
      [lat |-> "40",    lon |-> "-75", date |-> NoParam],
      [lat |-> "",      lon |-> "-75", date |-> DateOne],
      [lat |-> "abc",   lon |-> "-75", date |-> DateOne],
      [lat |-> "40",    lon |-> "east", date |-> DateOne],
      [lat |-> "40",    lon |-> "-75", date |-> DateOne],
      [lat |-> "40.0",  lon |-> "-75", date |-> DateOne],
      [lat |-> "41",    lon |-> "-75", date |-> DateOne],
      [lat |-> "40",    lon |-> "-75", date |-> DateTwo],
      [lat |-> "40",    lon |-> "-75", date |-> DateNone] }

NoQuery == [lat |-> NoParam, lon |-> NoParam, date |-> NoParam]

\* `not lat or not lon or not date`: None and the empty string are falsy.
Falsy(s) == s = NoParam \/ s = ""

MissingParamsDropDate(q) == Falsy(q.lat) \/ Falsy(q.lon)

MissingParams(q) == Falsy(q.lat) \/ Falsy(q.lon) \/ Falsy(q.date)

\* float(s): the strings Python parses, and the number each one is.
IsFloat(s) == s \in {"40", "40.0", "41", "-75"}

Float(s) ==
    CASE s = "40"   -> 40
      [] s = "40.0" -> 40
      [] s = "41"   -> 41
      [] s = "-75"  -> -75

\* f"{x}" of a float.
FloatStr(x) ==
    CASE x = 40  -> "40.0"
      [] x = 41  -> "41.0"
      [] x = -75 -> "-75.0"

Malformed(q) == ~MissingParams(q) /\ (~IsFloat(q.lat) \/ ~IsFloat(q.lon))

WellFormed(q) == ~MissingParams(q) /\ IsFloat(q.lat) /\ IsFloat(q.lon)

\* ------------------------------------------------------------ files
\* key = f"{lat}_{lon}_{date}" of the floats fetch_data passes; the cache file
\* is named by the key's md5 digest, which is one name per key.
CacheKey(lat, lon, date) == <<FloatStr(lat), FloatStr(lon), date>>

get_cache_filename(lat, lon, date) ==
    <<"cache", "md5">> \o CacheKey(lat, lon, date)

CacheFile(q) == get_cache_filename(Float(q.lat), Float(q.lon), q.date)

\* The catalogue: the granules search_data returns for a day (MERRA-2 granules
\* are global daily files, so the point does not select among them).
Archive(date) ==
    CASE date = DateOne -> <<"g1">>
      [] date = DateTwo -> <<"g1", "g2">>
      [] OTHER -> <<>>

Granules == {"g1", "g2"}

\* earthaccess.download(results, local_path=CACHE_DIR) stores each granule
\* under the granule's own file name in CACHE_DIR.
GranuleFile(g) == <<"cache", "granule", g, "", "">>

CacheFiles == { CacheFile(q) : q \in { p \in Queries : WellFormed(p) } }

Paths == CacheFiles \cup { GranuleFile(g) : g \in Granules }

\* A file: absent, or present with no bytes, some of its bytes or all of them,
\* and the requests whose transfer still has it open for writing.
Absent == [st |-> "absent", w |-> {}]

Exists(f, p) == f[p].st # "absent"

\* ------------------------------------------------------------ state
VARIABLES
    query,     \* request -> its query string
    resp,      \* request -> the HTTP response: status and JSON body
    frames,    \* request -> the frames event_stream has yielded
    mpc,       \* request -> where event_stream stands
    tpc,       \* request -> where the thread fetch_data stands
    i,         \* request -> event_stream's counter i
    slot,      \* request -> result_container
    calls,     \* request -> the calls process_live_data has made, in order
               \*   (os.path.exists(cache_file) as what it returned: hit, miss)
    dl,        \* request -> downloaded_files
    fs,        \* path -> file
    got,       \* request -> how its transfer ended
    prior,     \* request -> a request for its key had succeeded when it came
    arg,       \* the argument of the function under call (its own specifications)
    res,       \* what the call returned
    fpc        \* where the call stands: off, call, done

vars == <<query, resp, frames, mpc, tpc, i, slot, calls, dl, fs, got, prior,
          arg, res, fpc>>

\* The variables of the calls checked on their own, which the requests leave alone.
call == <<arg, res, fpc>>

\* The variables of the requests.
served == <<query, resp, frames, mpc, tpc, i, slot, calls, dl, fs, got, prior>>

\* ------------------------------------------------------------ frames
\* A frame: an unnamed `data:` message (event "message") or a named event.
Frame(event, kind, body, n, rec, imp) ==
    [event |-> event, kind |-> kind, body |-> body, n |-> n, rec |-> rec, imp |-> imp]

StartingFrame == Frame("message", "starting", "", 0, 0, 0)

\* len(steps)
NumSteps == 5

\* The progress frame with its step taken by the cycle of the four fun_msgs.
ProgressFrameFunCycle(k) == Frame("message", "progress", "", k % 4, 0, 0)

\* steps[i % len(steps)]
ProgressFrame(k) == Frame("message", "progress", "", k % NumSteps, 0, 0)

\* json.dumps(result) of an error result, or of {'error': str(e), 'trace': tb}
ErrorFrame(why) == Frame("message", "error", why, 0, 0, 0)

EndFrame(body) == Frame("end", "end", body, 0, 0, 0)

\* ------------------------------------------------------------ results
Unset == [kind |-> "unset", why |-> "", todi |-> 0]

ErrorResult(why) == [kind |-> "error", why |-> why, todi |-> 0]

OkResult(todi) == [kind |-> "ok", why |-> "", todi |-> todi]

\* Null is Python's None where a score is expected.
Null == -1

\* The largest score, in tenths.
MaxTodi == 100

\* The scores todi_engine delivers, in tenths: the index is bounded, and
\* None where the formula is undefined.
TodiScores == {Null} \cup (0..MaxTodi)

\* todi_engine.calculate_todi_score(temperature_c, humidity, wind_speed_ms),
\* with the temperature in hundredths of a degree and the wind in tenths of
\* a metre per second: a bounded index that grows with heat and humidity
\* and falls with wind, and None outside the domain of its formula.
calculate_todi_score(temperature_c, humidity, wind_speed_ms) ==
    IF \/ temperature_c < -9000 \/ temperature_c > 6000
       \/ humidity < 0 \/ humidity > 100
       \/ wind_speed_ms < 0
       THEN Null
       ELSE LET raw == (temperature_c \div 50) + (humidity \div 5)
                           - (wind_speed_ms \div 10)
            IN  IF raw < 0 THEN 0 ELSE IF raw > MaxTodi THEN MaxTodi ELSE raw

\* No request has come.
NoRequest ==
    /\ query = [r \in Requests |-> NoQuery]
    /\ resp = [r \in Requests |-> [status |-> 0, body |-> ""]]
    /\ frames = [r \in Requests |-> <<>>]
    /\ mpc = [r \in Requests |-> "idle"]
    /\ tpc = [r \in Requests |-> "none"]
    /\ i = [r \in Requests |-> 0]
    /\ slot = [r \in Requests |-> Unset]
    /\ calls = [r \in Requests |-> <<>>]
    /\ dl = [r \in Requests |-> <<>>]
    /\ fs = [p \in Paths |-> Absent]
    /\ got = [r \in Requests |-> ""]
    /\ prior = [r \in Requests |-> FALSE]

Init ==
    /\ NoRequest
    /\ arg = <<>>
    /\ res = <<>>
    /\ fpc = "off"

\* ------------------------------------------------------------ values
\* A Python value is <<type, payload>>. The payload of a dict maps its keys
\* (strings) to values, that of a list is the sequence of its items; the
\* payload of a float, numpy's or Python's, is <<x>> for the number x and
\* <<>> for NaN, which is a float and no number.
Dict(items) == <<"dict", items>>

List(items) == <<"list", items>>

NpInteger(n) == <<"np.integer", n>>

NpFloating(n) == <<"np.floating", <<n>>>>

NpBool(b) == <<"np.bool_", b>>

PyInt(n) == <<"int", n>>

PyFloat(n) == <<"float", <<n>>>>

PyBool(b) == <<"bool", b>>

Str(text) == <<"str", text>>

None == <<"NoneType", "None">>

NpNaN == <<"np.floating", <<>>>>

NaN == <<"float", <<>>>>

Wrappers == {"np.integer", "np.floating", "np.bool_"}

Containers == {"dict", "list"}

\* convert_numpy_types with a list returned as it is, its items unconverted.
RECURSIVE convert_numpy_types(_)
convert_numpy_types_flat_list(data) ==
    IF data[1] = "dict"
       THEN Dict([key \in DOMAIN data[2] |-> convert_numpy_types(data[2][key])])
    ELSE IF data[1] = "np.integer" THEN <<"int", data[2]>>
    ELSE IF data[1] = "np.floating" THEN <<"float", data[2]>>
    ELSE IF data[1] = "np.bool_" THEN <<"bool", data[2]>>
    ELSE data

\* convert_numpy_types(data): a dict and a list are rebuilt from their
\* converted items, int(), float() and bool() make a numpy scalar a Python
\* one, and anything else is returned as it is. float() of a NaN is a NaN.
convert_numpy_types(data) ==
    IF data[1] = "dict"
       THEN Dict([key \in DOMAIN data[2] |-> convert_numpy_types(data[2][key])])
    ELSE IF data[1] = "list"
       THEN List([k \in DOMAIN data[2] |-> convert_numpy_types(data[2][k])])
    ELSE IF data[1] = "np.integer" THEN <<"int", data[2]>>
    ELSE IF data[1] = "np.floating" THEN <<"float", data[2]>>
    ELSE IF data[1] = "np.bool_" THEN <<"bool", data[2]>>
    ELSE data

\* The items of a dict or of a list.
Items(data) == { data[2][key] : key \in DOMAIN data[2] }

\* A numpy scalar is somewhere in the value.
RECURSIVE HasWrapper(_)
HasWrapper(data) ==
    IF data[1] \in Containers
       THEN \E item \in Items(data) : HasWrapper(item)
       ELSE data[1] \in Wrappers

\* A NaN is somewhere in the value.
RECURSIVE HasNaN(_)
HasNaN(data) ==
    IF data[1] \in Containers
       THEN \E item \in Items(data) : HasNaN(item)
       ELSE data[1] \in {"float", "np.floating"} /\ data[2] = <<>>

\* ------------------------------------------------------------ datasets
\* A dataset holds for each variable the values of its grid cells: kelvins
\* in hundredths for T2M and T2MDEW, metres per second in tenths for U10M and
\* V10M. A variable that is not in the dataset has no cells.
Dataset(t2m, u10m, v10m, t2mdew) ==
    [T2M |-> t2m, U10M |-> u10m, V10M |-> v10m, T2MDEW |-> t2mdew]

T2MCells == {<<>>, <<24315>>, <<27315>>, <<30015, 30515>>, <<35000>>}

U10MCells == {<<>>, <<30>>, <<-10, 30>>}

V10MCells == {<<>>, <<40>>}

T2MDEWCells == {<<>>, <<29015>>, <<28015, 29015>>}

Datasets ==
    { Dataset(t2m, u10m, v10m, t2mdew) :
          t2m \in T2MCells, u10m \in U10MCells, v10m \in V10MCells,
          t2mdew \in T2MDEWCells }

\* ds[name] raises KeyError.
Lacks(ds, name) == ds[name] = <<>>

\* .max().item()
RECURSIVE CellMax(_)
CellMax(cells) ==
    IF Len(cells) = 1 THEN cells[1]
    ELSE LET rest == CellMax(Tail(cells))
         IN  IF cells[1] >= rest THEN cells[1] ELSE rest

RECURSIVE CellSum(_)
CellSum(cells) == IF cells = <<>> THEN 0 ELSE cells[1] + CellSum(Tail(cells))

\* .mean().item(), to the hundredth.
CellMean(cells) == CellSum(cells) \div Len(cells)

\* 273.15 in hundredths.
Kelvin == 27315

\* The humidity handed to the score, in percent.
Humidity == 65

\* np.sqrt(U10M**2 + V10M**2), to the tenth: a numpy float.
Speed(u10m, v10m) ==
    LET n == u10m * u10m + v10m * v10m
        span == (IF u10m < 0 THEN -u10m ELSE u10m)
                    + (IF v10m < 0 THEN -v10m ELSE v10m)
    IN  CHOOSE k \in 0..span : k * k <= n /\ n < (k + 1) * (k + 1)

Metrics(raised, temp, dewpoint, wind, todi) ==
    [raised |-> raised, max_temp_celsius |-> temp, dewpoint_celsius |-> dewpoint,
     max_wind_speed_ms |-> wind, todi_score |-> todi]

\* _extract_metrics_from_dataset with the humidity taken from the dewpoint,
\* 5 percent less for each degree between temperature and dewpoint.
_extract_metrics_dewpoint_humidity(ds) ==
    IF \E name \in DOMAIN ds : Lacks(ds, name)
       THEN Metrics("ValueError", 0, 0, 0, 0)
       ELSE LET daily_max_temp_c == CellMax(ds.T2M) - Kelvin
                daily_max_wind_ms == Speed(CellMax(ds.U10M), CellMax(ds.V10M))
                daily_dewpoint_c == CellMean(ds.T2MDEW) - Kelvin
                spread == (daily_max_temp_c - daily_dewpoint_c) \div 20
                humidity == IF spread < 0 THEN 100
                            ELSE IF spread > 100 THEN 0 ELSE 100 - spread
            IN  Metrics("", daily_max_temp_c, daily_dewpoint_c, daily_max_wind_ms,
                        calculate_todi_score(daily_max_temp_c, humidity,
                                             daily_max_wind_ms))

\* _extract_metrics_from_dataset(ds): the metrics, or ValueError for a
\* variable that is not in the dataset.
_extract_metrics_from_dataset(ds) ==
    IF \E name \in DOMAIN ds : Lacks(ds, name)
       THEN Metrics("ValueError", 0, 0, 0, 0)
       ELSE LET daily_max_temp_c == CellMax(ds.T2M) - Kelvin
                daily_max_wind_ms == Speed(CellMax(ds.U10M), CellMax(ds.V10M))
                daily_dewpoint_c == CellMean(ds.T2MDEW) - Kelvin
            IN  Metrics("", daily_max_temp_c, daily_dewpoint_c, daily_max_wind_ms,
                        calculate_todi_score(daily_max_temp_c, Humidity,
                                             daily_max_wind_ms))

\* ------------------------------------------------------------ helpers
Max(a, b) == IF a >= b THEN a ELSE b

\* round(n / d) for n >= 0 and d > 0: Python rounds a half to the even side.
Round(n, d) ==
    LET q == n \div d
        m == n % d
    IN  IF 2 * m < d THEN q
        ELSE IF 2 * m > d THEN q + 1
        ELSE IF q % 2 = 0 THEN q ELSE q + 1

\* `result["daily_summary"]["todi_score"][0] or 0`, scores in tenths.
CurrentTodi(todi) == IF todi = Null \/ todi = 0 THEN 0 ELSE todi

\* The recommended score without its floor at 0.
RecommendedTodiNoFloor(todi) == CurrentTodi(todi) - 10

\* max(current_todi - 1, 0)
RecommendedTodi(todi) == Max(CurrentTodi(todi) - 10, 0)

\* round(((current_todi - recommended_todi) / max(current_todi, 1)) * 100)
Improvement(todi) ==
    Round((CurrentTodi(todi) - RecommendedTodi(todi)) * 100,
          Max(CurrentTodi(todi), 10))

ResultFrame(todi) ==
    Frame("result", "result", "", todi, RecommendedTodi(todi), Improvement(todi))

Bad400 == [status |-> 400, body |-> "{\"error\": \"lat, lon, and date are required\"}"]

Streaming == [status |-> 200, body |-> "text/event-stream"]

Alive(r) == tpc[r] \notin {"none", "done", "dead"}

Succeeded(r) ==
    /\ mpc[r] = "closed"
    /\ \E k \in 1..Len(frames[r]) : frames[r][k].event = "result"

\* ------------------------------------------------------------ app.py
\* live_risk: the parameter check, then the Response around event_stream().
Request(r, q) ==
    /\ mpc[r] = "idle"
    /\ IF r = 1 THEN TRUE ELSE mpc[r - 1] # "idle"
    /\ query' = [query EXCEPT ![r] = q]
    /\ IF MissingParams(q)
          THEN /\ resp' = [resp EXCEPT ![r] = Bad400]
               /\ mpc' = [mpc EXCEPT ![r] = "rejected"]
               /\ prior' = prior
          ELSE /\ resp' = [resp EXCEPT ![r] = Streaming]
               /\ mpc' = [mpc EXCEPT ![r] = "opened"]
               /\ prior' = [prior EXCEPT ![r] =
                      /\ WellFormed(q)
                      /\ \E o \in Requests :
                            /\ Succeeded(o)
                            /\ CacheFile(query[o]) = CacheFile(q)]
    /\ UNCHANGED <<frames, tpc, i, slot, calls, dl, fs, got, arg, res, fpc>>

\* yield "data: Starting live NASA analysis ..."
StreamStart(r) ==
    /\ mpc[r] = "opened"
    /\ frames' = [frames EXCEPT ![r] = Append(@, StartingFrame)]
    /\ mpc' = [mpc EXCEPT ![r] = "started"]
    /\ UNCHANGED <<query, resp, tpc, i, slot, calls, dl, fs, got, prior, arg, res, fpc>>

\* thread = Thread(target=fetch_data); thread.start(); i = 0
Spawn(r) ==
    /\ mpc[r] = "started"
    /\ tpc' = [tpc EXCEPT ![r] = "fetch"]
    /\ mpc' = [mpc EXCEPT ![r] = "loop"]
    /\ UNCHANGED <<query, resp, frames, i, slot, calls, dl, fs, got, prior, arg, res, fpc>>

\* while thread.is_alive(): yield the progress frame; i += 1; sleep: for at
\* most `most` turns of the loop.
ProgressWithin(r, most) ==
    /\ mpc[r] = "loop"
    /\ Alive(r)
    /\ i[r] < most
    /\ frames' = [frames EXCEPT ![r] = Append(@, ProgressFrame(i[r]))]
    /\ i' = [i EXCEPT ![r] = @ + 1]
    /\ UNCHANGED <<query, resp, mpc, tpc, slot, calls, dl, fs, got, prior, arg, res, fpc>>

Progress(r) == ProgressWithin(r, MaxProgress)

\* Outcome without its `else`: after the error message of an error result
\* the recommendation is computed all the same, and its KeyError is caught.
OutcomeNoElse(r) ==
    /\ mpc[r] = "loop"
    /\ ~Alive(r)
    /\ IF slot[r].kind = "unset"
          THEN /\ frames' = [frames EXCEPT ![r] = Append(@, ErrorFrame("KeyError"))]
               /\ mpc' = [mpc EXCEPT ![r] = "except"]
          ELSE IF slot[r].kind = "error"
          THEN /\ frames' = [frames EXCEPT ![r] =
                      Append(Append(@, ErrorFrame(slot[r].why)), ErrorFrame("KeyError"))]
               /\ mpc' = [mpc EXCEPT ![r] = "except"]
          ELSE /\ frames' = [frames EXCEPT ![r] = Append(@, ResultFrame(slot[r].todi))]
               /\ mpc' = [mpc EXCEPT ![r] = "ending"]
    /\ UNCHANGED <<query, resp, tpc, i, slot, calls, dl, fs, got, prior, arg, res, fpc>>

\* Outcome without the except clause of event_stream: the KeyError of an
\* unwritten slot ends the generator, and the stream with it.
OutcomeUncaught(r) ==
    /\ mpc[r] = "loop"
    /\ ~Alive(r)
    /\ IF slot[r].kind = "unset"
          THEN /\ frames' = frames
               /\ mpc' = [mpc EXCEPT ![r] = "closed"]
          ELSE IF slot[r].kind = "error"
          THEN /\ frames' = [frames EXCEPT ![r] = Append(@, ErrorFrame(slot[r].why))]
               /\ mpc' = [mpc EXCEPT ![r] = "ending"]
          ELSE /\ frames' = [frames EXCEPT ![r] = Append(@, ResultFrame(slot[r].todi))]
               /\ mpc' = [mpc EXCEPT ![r] = "ending"]
    /\ UNCHANGED <<query, resp, tpc, i, slot, calls, dl, fs, got, prior, arg, res, fpc>>

\* thread.join(); result = result_container["data"]; the outcome frame.
\* An unwritten slot is a KeyError, which the except clause turns into an
\* error message.
Outcome(r) ==
    /\ mpc[r] = "loop"
    /\ ~Alive(r)
    /\ IF slot[r].kind = "unset"
          THEN /\ frames' = [frames EXCEPT ![r] = Append(@, ErrorFrame("KeyError"))]
               /\ mpc' = [mpc EXCEPT ![r] = "except"]
          ELSE IF slot[r].kind = "error"
          THEN /\ frames' = [frames EXCEPT ![r] = Append(@, ErrorFrame(slot[r].why))]
               /\ mpc' = [mpc EXCEPT ![r] = "ending"]
          ELSE /\ frames' = [frames EXCEPT ![r] = Append(@, ResultFrame(slot[r].todi))]
               /\ mpc' = [mpc EXCEPT ![r] = "ending"]
    /\ UNCHANGED <<query, resp, tpc, i, slot, calls, dl, fs, got, prior, arg, res, fpc>>

\* yield "event: end\ndata: done\n\n"
EndDone(r) ==
    /\ mpc[r] = "ending"
    /\ frames' = [frames EXCEPT ![r] = Append(@, EndFrame("done"))]
    /\ mpc' = [mpc EXCEPT ![r] = "closed"]
    /\ UNCHANGED <<query, resp, tpc, i, slot, calls, dl, fs, got, prior, arg, res, fpc>>

\* except Exception: ... yield "event: end\ndata: failed\n\n"
EndFailed(r) ==
    /\ mpc[r] = "except"
    /\ frames' = [frames EXCEPT ![r] = Append(@, EndFrame("failed"))]
    /\ mpc' = [mpc EXCEPT ![r] = "closed"]
    /\ UNCHANGED <<query, resp, tpc, i, slot, calls, dl, fs, got, prior, arg, res, fpc>>

\* ------------------------------------------------------ live_nasa_processor.py
Log(r, what) == [calls EXCEPT ![r] = Append(@, what)]

\* `except Exception as e: return {"error": ...}`, stored by fetch_data.
Fail(r, why) ==
    /\ slot' = [slot EXCEPT ![r] = ErrorResult(why)]
    /\ tpc' = [tpc EXCEPT ![r] = "done"]

\* fetch_data: float(lat) or float(lon) raises ValueError outside
\* process_live_data's try; the thread ends and writes no slot.
FetchFault(r) ==
    /\ tpc[r] = "fetch"
    /\ ~WellFormed(query[r])
    /\ tpc' = [tpc EXCEPT ![r] = "dead"]
    /\ UNCHANGED <<query, resp, frames, mpc, i, slot, calls, dl, fs, got, prior, arg, res, fpc>>

\* Authenticate without its `raise`: a refused login is only logged.
AuthenticateNoRaise(r, ok) ==
    /\ tpc[r] = "fetch"
    /\ WellFormed(query[r])
    /\ calls' = Log(r, IF ok THEN "auth" ELSE "auth-refused")
    /\ tpc' = [tpc EXCEPT ![r] = "check"]
    /\ UNCHANGED <<query, resp, frames, mpc, i, slot, dl, fs, got, prior, arg, res, fpc>>

\* _authenticate_earthdata: earthaccess.login, ConnectionError when the
\* login is refused.
Authenticate(r, ok) ==
    /\ tpc[r] = "fetch"
    /\ WellFormed(query[r])
    /\ calls' = Log(r, IF ok THEN "auth" ELSE "auth-refused")
    /\ IF ok
          THEN /\ tpc' = [tpc EXCEPT ![r] = "check"]
               /\ slot' = slot
          ELSE Fail(r, "auth")
    /\ UNCHANGED <<query, resp, frames, mpc, i, dl, fs, got, prior, arg, res, fpc>>

\* CacheCheck whose result is not used: _search_and_download runs in any case.
CacheCheckUnused(r) ==
    /\ tpc[r] = "check"
    /\ calls' = Log(r, IF Exists(fs, CacheFile(query[r])) THEN "hit" ELSE "miss")
    /\ tpc' = [tpc EXCEPT ![r] = "search"]
    /\ UNCHANGED <<query, resp, frames, mpc, i, slot, dl, fs, got, prior, arg, res, fpc>>

\* cache_file = get_cache_filename(...); if not os.path.exists(cache_file)
CacheCheck(r) ==
    /\ tpc[r] = "check"
    /\ calls' = Log(r, IF Exists(fs, CacheFile(query[r])) THEN "hit" ELSE "miss")
    /\ tpc' = [tpc EXCEPT ![r] =
                  IF Exists(fs, CacheFile(query[r])) THEN "open" ELSE "search"]
    /\ UNCHANGED <<query, resp, frames, mpc, i, slot, dl, fs, got, prior, arg, res, fpc>>

\* earthaccess.search_data; `if not results: raise FileNotFoundError`
Search(r) ==
    /\ tpc[r] = "search"
    /\ calls' = Log(r, "search")
    /\ IF Archive(query[r].date) = <<>>
          THEN Fail(r, "notfound")
          ELSE /\ tpc' = [tpc EXCEPT ![r] = "download"]
               /\ slot' = slot
    /\ UNCHANGED <<query, resp, frames, mpc, i, dl, fs, got, prior, arg, res, fpc>>

\* The files earthaccess.download is to deliver, in the order of results.
Targets(r) ==
    [k \in 1..Len(Archive(query[r].date)) |-> GranuleFile(Archive(query[r].date)[k])]

Range(seq) == { seq[k] : k \in 1..Len(seq) }

\* earthaccess.download begins: it creates each file that is not yet in
\* CACHE_DIR and streams into it, and leaves alone a file that is there
\* already; with nothing to fetch it returns at once.
DownloadBegin(r) ==
    LET new == { p \in Range(Targets(r)) : ~Exists(fs, p) }
    IN  /\ tpc[r] = "download"
        /\ calls' = Log(r, "download")
        /\ fs' = [p \in Paths |->
                     IF p \in new THEN [st |-> "empty", w |-> {r}] ELSE fs[p]]
        /\ IF new = {}
              THEN /\ dl' = [dl EXCEPT ![r] = Targets(r)]
                   /\ got' = [got EXCEPT ![r] = "skipped"]
                   /\ tpc' = [tpc EXCEPT ![r] = "validate"]
              ELSE /\ tpc' = [tpc EXCEPT ![r] = "dl0"]
                   /\ UNCHANGED <<dl, got>>
        /\ UNCHANGED <<query, resp, frames, mpc, i, slot, prior, arg, res, fpc>>

\* The transfer writes its first bytes into the files it has open.
DownloadWrite(r) ==
    /\ tpc[r] = "dl0"
    /\ fs' = [p \in Paths |->
                 IF r \in fs[p].w THEN [fs[p] EXCEPT !.st = "partial"] ELSE fs[p]]
    /\ tpc' = [tpc EXCEPT ![r] = "dl1"]
    /\ UNCHANGED <<query, resp, frames, mpc, i, slot, calls, dl, got, prior, arg, res, fpc>>

\* The transfer ends and closes its files: with all the bytes written, or
\* with none of them (an empty file), or returning no file at all.
DownloadEnd(r, how) ==
    /\ \/ tpc[r] = "dl1" /\ how = "full"
       \/ tpc[r] = "dl0" /\ how \in {"empty", "nofile"}
    /\ fs' = [p \in Paths |->
                 IF r \in fs[p].w
                    THEN [st |-> IF how = "full" THEN "full" ELSE fs[p].st,
                          w |-> fs[p].w \ {r}]
                    ELSE fs[p]]
    /\ dl' = [dl EXCEPT ![r] = IF how = "nofile" THEN <<>> ELSE Targets(r)]
    /\ got' = [got EXCEPT ![r] = how]
    /\ tpc' = [tpc EXCEPT ![r] = "validate"]
    /\ UNCHANGED <<query, resp, frames, mpc, i, slot, calls, prior, arg, res, fpc>>

\* `not downloaded_files or not os.path.exists(downloaded_files[0])
\*  or os.path.getsize(downloaded_files[0]) == 0`
TransferBad(r) ==
    \/ dl[r] = <<>>
    \/ ~Exists(fs, dl[r][1])
    \/ fs[dl[r][1]].st = "empty"

\* The files after the clean-up of a bad transfer:
\* `if downloaded_files and os.path.exists(...): os.remove(downloaded_files[0])`
CleanUpNothing(r) == fs

\* The clean-up that removes the file at the cache path of the query.
CleanUpCacheFile(r) ==
    IF dl[r] # <<>> /\ Exists(fs, dl[r][1])
       THEN [fs EXCEPT ![dl[r][1]] = Absent, ![CacheFile(query[r])] = Absent]
       ELSE fs

CleanUp(r) ==
    IF dl[r] # <<>> /\ Exists(fs, dl[r][1])
       THEN [fs EXCEPT ![dl[r][1]] = Absent]
       ELSE fs

\* _search_and_download, after the download: the check of the file, and
\* for a bad one the clean-up and ConnectionError.
Validate(r) ==
    /\ tpc[r] = "validate"
    /\ IF TransferBad(r)
          THEN /\ fs' = CleanUp(r)
               /\ calls' = Log(r, "cleanup")
               /\ Fail(r, "transfer")
          ELSE /\ tpc' = [tpc EXCEPT ![r] = "commit"]
               /\ UNCHANGED <<fs, calls, slot>>
    /\ UNCHANGED <<query, resp, frames, mpc, i, dl, got, prior, arg, res, fpc>>

\* os.rename(downloaded_files[0], cache_file): POSIX replaces the target;
\* a source that is gone is FileNotFoundError.
Commit(r) ==
    /\ tpc[r] = "commit"
    /\ IF Exists(fs, dl[r][1])
          THEN /\ fs' = [fs EXCEPT ![CacheFile(query[r])] = fs[dl[r][1]],
                                   ![dl[r][1]] = Absent]
               /\ calls' = Log(r, "rename")
               /\ tpc' = [tpc EXCEPT ![r] = "open"]
               /\ slot' = slot
          ELSE /\ Fail(r, "rename")
               /\ UNCHANGED <<fs, calls>>
    /\ UNCHANGED <<query, resp, frames, mpc, i, dl, got, prior, arg, res, fpc>>

\* OpenExtract that removes the file it has read.
OpenExtractRemove(r, x) ==
    /\ tpc[r] = "open"
    /\ calls' = Log(r, "open")
    /\ fs' = [fs EXCEPT ![CacheFile(query[r])] = Absent]
    /\ IF fs[CacheFile(query[r])].st # "full"
          THEN Fail(r, "open")
          ELSE IF _extract_metrics_from_dataset(x).raised # ""
          THEN Fail(r, "schema")
          ELSE /\ slot' = [slot EXCEPT ![r] =
                              OkResult(_extract_metrics_from_dataset(x).todi_score)]
               /\ tpc' = [tpc EXCEPT ![r] = "done"]
    /\ UNCHANGED <<query, resp, frames, mpc, i, dl, got, prior, arg, res, fpc>>

\* xr.open_dataset(cache_file), _extract_metrics_from_dataset, the result:
\* x is the dataset in the granule. A file that is not whole does not open.
OpenExtract(r, x) ==
    /\ tpc[r] = "open"
    /\ calls' = Log(r, "open")
    /\ IF fs[CacheFile(query[r])].st # "full"
          THEN Fail(r, "open")
          ELSE IF _extract_metrics_from_dataset(x).raised # ""
          THEN Fail(r, "schema")
          ELSE /\ slot' = [slot EXCEPT ![r] =
                              OkResult(_extract_metrics_from_dataset(x).todi_score)]
               /\ tpc' = [tpc EXCEPT ![r] = "done"]
    /\ UNCHANGED <<query, resp, frames, mpc, i, dl, fs, got, prior, arg, res, fpc>>

\* ------------------------------------------------------------ specification
Next ==
    \/ \E r \in Requests, q \in Queries : Request(r, q)
    \/ \E r \in Requests : StreamStart(r)
    \/ \E r \in Requests : Spawn(r)
    \/ \E r \in Requests : Progress(r)
    \/ \E r \in Requests : Outcome(r)
    \/ \E r \in Requests : EndDone(r)
    \/ \E r \in Requests : EndFailed(r)
    \/ \E r \in Requests : FetchFault(r)
    \/ \E r \in Requests, ok \in BOOLEAN : Authenticate(r, ok)
    \/ \E r \in Requests : CacheCheck(r)
    \/ \E r \in Requests : Search(r)
    \/ \E r \in Requests : DownloadBegin(r)
    \/ \E r \in Requests : DownloadWrite(r)
    \/ \E r \in Requests, how \in {"full", "empty", "nofile"} : DownloadEnd(r, how)
    \/ \E r \in Requests : Validate(r)
    \/ \E r \in Requests : Commit(r)
    \/ \E r \in Requests, x \in Datasets : OpenExtract(r, x)

Spec == Init /\ [][Next]_vars

\* The generator is run on: once the thread is no longer alive the while
\* loop is left, and each statement after it is reached.
Driven ==
    \A r \in Requests :
        /\ WF_vars(Outcome(r))
        /\ WF_vars(EndDone(r))
        /\ WF_vars(EndFailed(r))

SpecDriven == Init /\ [][Next]_vars /\ Driven

\* ------------------------------------------------------------ one stream
\* One request on its own, whose loop turns often enough to go round the
\* list of steps.
MaxTurns == 7

LongProgress == ProgressWithin(1, MaxTurns)

NextStream ==
    \/ \E q \in Queries : Request(1, q)
    \/ StreamStart(1)
    \/ Spawn(1)
    \/ LongProgress
    \/ Outcome(1)
    \/ EndDone(1)
    \/ EndFailed(1)
    \/ FetchFault(1)
    \/ \E ok \in BOOLEAN : Authenticate(1, ok)
    \/ CacheCheck(1)
    \/ Search(1)
    \/ DownloadBegin(1)
    \/ DownloadWrite(1)
    \/ \E how \in {"full", "empty", "nofile"} : DownloadEnd(1, how)
    \/ Validate(1)
    \/ Commit(1)
    \/ \E x \in Datasets : OpenExtract(1, x)

SpecStream == Init /\ [][NextStream]_vars

\* ------------------------------------------------------------ the recommendation
\* The recommendation event_stream derives from a score, on its own: the
\* score is any score the pipeline delivers.
InitRecommend ==
    /\ NoRequest
    /\ arg \in TodiScores
    /\ res = <<>>
    /\ fpc = "call"

\* current_todi, recommended_todi and the "todi_recommendation" mapping.
Recommend ==
    /\ fpc = "call"
    /\ res' = [current_score |-> CurrentTodi(arg),
               recommended_score |-> RecommendedTodi(arg),
               improvement |-> Improvement(arg)]
    /\ fpc' = "done"
    /\ UNCHANGED <<arg, served>>

SpecRecommend == InitRecommend /\ [][Recommend]_vars

\* ------------------------------------------------------------ the extraction
\* _extract_metrics_from_dataset on its own, applied to two datasets that
\* hold the same T2M, U10M and V10M.
DatasetPairs ==
    { pair \in Datasets \X Datasets :
          /\ pair[1].T2M = pair[2].T2M
          /\ pair[1].U10M = pair[2].U10M
          /\ pair[1].V10M = pair[2].V10M }

InitExtract ==
    /\ NoRequest
    /\ arg \in DatasetPairs
    /\ res = <<>>
    /\ fpc = "call"

\* metrics = _extract_metrics_from_dataset(ds), for each of the two.
Extract ==
    /\ fpc = "call"
    /\ res' = <<_extract_metrics_from_dataset(arg[1]),
                _extract_metrics_from_dataset(arg[2])>>
    /\ fpc' = "done"
    /\ UNCHANGED <<arg, served>>

SpecExtract == InitExtract /\ [][Extract]_vars

\* ------------------------------------------------------------ process_live_data
\* process_live_data as a function of what its calls meet: the login, the
\* existence check, the search, the transfer, the rename, the open of the
\* dataset and the dataset itself.
Outcomes ==
    [auth : BOOLEAN,
     cached : BOOLEAN,
     granules : 0..2,
     transfer : {"full", "empty", "nofile", "gone"},
     rename : {"ok", "gone"},
     opens : BOOLEAN,
     ds : Datasets]

\* _search_and_download: the exception it raises, "" for none.
_search_and_download(o) ==
    IF o.granules = 0 THEN "FileNotFoundError"
    ELSE IF o.transfer # "full" THEN "ConnectionError"
    ELSE IF o.rename # "ok" THEN "FileNotFoundError"
    ELSE ""

\* A score as a value of the result: None, or a float.
ScoreValue(todi) == IF todi = Null THEN None ELSE PyFloat(todi)

\* The `result` mapping: each array of daily_summary is a list of one item.
\* The wind is a numpy float, np.sqrt's.
LiveResult(date, metrics) ==
    Dict([location |-> Str("Live Data for 40.0, -75.0"),
          fetched_at |-> Str("now"),
          daily_summary |->
              Dict([timestamps |-> List(<<Str(date)>>),
                    max_temp_celsius |-> List(<<PyFloat(metrics.max_temp_celsius)>>),
                    dewpoint_celsius |-> List(<<PyFloat(metrics.dewpoint_celsius)>>),
                    max_wind_speed_ms |-> List(<<NpFloating(metrics.max_wind_speed_ms)>>),
                    todi_score |-> List(<<ScoreValue(metrics.todi_score)>>)])])

Raised(exc) == [raised |-> exc, value |-> None]

Returned(value) == [raised |-> "", value |-> value]

\* The body of the try of process_live_data: the exception of the first
\* call that raises, or the sanitized result.
TryBody(o) ==
    IF ~o.auth THEN Raised("ConnectionError")
    ELSE IF ~o.cached /\ _search_and_download(o) # ""
    THEN Raised(_search_and_download(o))
    ELSE IF ~o.opens THEN Raised("OSError")
    ELSE IF _extract_metrics_from_dataset(o.ds).raised # ""
    THEN Raised(_extract_metrics_from_dataset(o.ds).raised)
    ELSE Returned(convert_numpy_types(
                      LiveResult(DateOne, _extract_metrics_from_dataset(o.ds))))

\* process_live_data with `except (ConnectionError, FileNotFoundError)`.
process_live_data_except_some(o) ==
    IF TryBody(o).raised \in {"ConnectionError", "FileNotFoundError"}
       THEN Returned(Dict([error |-> Str(TryBody(o).raised)]))
       ELSE TryBody(o)

\* process_live_data: `except Exception` makes of every exception of the
\* body the mapping {"error": ...}.
process_live_data(o) ==
    IF TryBody(o).raised # ""
       THEN Returned(Dict([error |-> Str(TryBody(o).raised)]))
       ELSE TryBody(o)

InitProcess ==
    /\ NoRequest
    /\ arg \in Outcomes
    /\ res = <<>>
    /\ fpc = "call"

Process ==
    /\ fpc = "call"
    /\ res' = process_live_data(arg)
    /\ fpc' = "done"
    /\ UNCHANGED <<arg, served>>

SpecProcess == InitProcess /\ [][Process]_vars

\* ------------------------------------------------------------ the sanitizer
\* convert_numpy_types on its own, applied to a value and then to its own
\* result. The values are built from dicts, lists, numpy scalars and plain
\* Python values, NaN among the floats of both kinds.
MaxLen == 2

MaxDepth == 2

Keys == {"todi_score", "location"}

Scalars ==
    {NpInteger(7), NpFloating(5), NpNaN, NpBool(TRUE),
     PyInt(7), PyFloat(5), NaN, PyBool(FALSE), Str("2020-07-15"), None}

\* The lists of at most n items of a set, n >= 1.
RECURSIVE ListsOf(_, _)
ListsOf(items, n) ==
    IF n = 0 THEN {<<>>}
    ELSE LET shorter == ListsOf(items, n - 1)
         IN  shorter \cup { Append(list, item) : list \in shorter, item \in items }

\* The dicts with keys among Keys and values in a set.
DictsOf(items) ==
    {<<>>} \cup UNION { [keys -> items] : keys \in (SUBSET Keys) \ {{}} }

\* The values whose containers nest at most depth deep: the innermost
\* containers of every length and key set, each outer one around one value.
RECURSIVE Values(_)
Values(depth) ==
    IF depth = 0 THEN Scalars
    ELSE IF depth = 1
    THEN Scalars \cup { List(list) : list \in ListsOf(Scalars, MaxLen) }
                 \cup { Dict(dict) : dict \in DictsOf(Scalars) }
    ELSE LET inner == Values(depth - 1)
         IN  inner \cup { List(<<item>>) : item \in inner }
                   \cup { Dict([key \in {"daily_summary"} |-> item]) : item \in inner }

InitSanitize ==
    /\ NoRequest
    /\ arg \in Values(MaxDepth)
    /\ res = <<>>
    /\ fpc = "call"

\* convert_numpy_types(arg): res holds the results so far.
Sanitize ==
    /\ fpc = "call"
    /\ res' = <<convert_numpy_types(arg)>>
    /\ fpc' = "once"
    /\ UNCHANGED <<arg, served>>

\* The result sanitized again: convert_numpy_types(convert_numpy_types(arg)).
SanitizeAgain ==
    /\ fpc = "once"
    /\ res' = Append(res, convert_numpy_types(res[1]))
    /\ fpc' = "twice"
    /\ UNCHANGED <<arg, served>>

NextSanitize == Sanitize \/ SanitizeAgain

SpecSanitize == InitSanitize /\ [][NextSanitize]_vars

\* ------------------------------------------------------------ claims
OutcomeFrames(r) ==
    { k \in 1..Len(frames[r]) : frames[r][k].kind \in {"error", "result"} }

EndFrames(r) == { k \in 1..Len(frames[r]) : frames[r][k].event = "end" }

\* The pipeline unit of r has finished: it returned, or it faulted.
Finished(r) == tpc[r] \in {"done", "dead"}

\* C1: a stream never holds more than one outcome frame (a result event or
\* an error message) nor more than one end event; an end event is the last
\* frame, says done or failed, and comes right after the outcome frame; and
\* once the pipeline unit has finished and the stream is closed, the stream
\* holds exactly one outcome frame and exactly one end event.
C1_OneOutcomeThenEnd ==
    \A r \in Requests :
        /\ Cardinality(OutcomeFrames(r)) <= 1
        /\ Cardinality(EndFrames(r)) <= 1
        /\ \A k \in EndFrames(r) :
              /\ k = Len(frames[r])
              /\ k - 1 \in OutcomeFrames(r)
              /\ frames[r][k].body \in {"done", "failed"}
        /\ mpc[r] \in {"ending", "except", "closed"} =>
              /\ Finished(r)
              /\ Cardinality(OutcomeFrames(r)) = 1
        /\ mpc[r] = "closed" => Cardinality(EndFrames(r)) = 1

\* A closed stream of each kind: a result after progress frames, and the
\* error message of a faulted thread.
C1_Witness ==
    /\ \E r \in Requests :
          /\ mpc[r] = "closed"
          /\ Len(frames[r]) >= 4
          /\ frames[r][Len(frames[r]) - 1].event = "result"
    /\ \E r \in Requests :
          /\ mpc[r] = "closed"
          /\ tpc[r] = "dead"

\* C2: when the search returns no granule, the closed stream ends with an
\* error message and then the end event with body failed.
C2_NoGranuleEndsFailed ==
    \A r \in Requests :
        (mpc[r] = "closed" /\ slot[r] = ErrorResult("notfound")) =>
            /\ frames[r][Len(frames[r]) - 1] = ErrorFrame("notfound")
            /\ frames[r][Len(frames[r])] = EndFrame("failed")

\* One of lat, lon, date is not in the URL.
ParamAbsent(q) == q.lat = NoParam \/ q.lon = NoParam \/ q.date = NoParam

\* C3: a request that lacks one of lat, lon, date is answered 400 with the
\* JSON error body; no frame is emitted for it, its thread is never started
\* and its pipeline makes no call.
C3_MissingParamRejected ==
    \A r \in Requests :
        (mpc[r] # "idle" /\ ParamAbsent(query[r])) =>
            /\ resp[r] = Bad400
            /\ mpc[r] = "rejected"
            /\ frames[r] = <<>>
            /\ tpc[r] = "none"
            /\ calls[r] = <<>>
            /\ slot[r] = Unset

\* Rejected requests, one for a missing date and one for a missing lat.
C3_Witness ==
    /\ \E r \in Requests : query[r].date = NoParam /\ resp[r] = Bad400
    /\ \E r \in Requests : query[r].lat = NoParam /\ resp[r] = Bad400

\* C4: a request whose lat or lon is present and is no number is answered
\* 400, and no frame is ever emitted for it.
C4_MalformedRejected ==
    \A r \in Requests :
        (mpc[r] # "idle" /\ Malformed(query[r])) =>
            /\ resp[r].status = 400
            /\ frames[r] = <<>>

\* C5: a request that arrives after a request for the same (lat, lon, date)
\* has succeeded makes no search and no download call; past authentication
\* it finds the cache file and opens it.
C5_SecondRequestUsesCache ==
    \A r \in Requests :
        prior[r] =>
            /\ \A k \in 1..Len(calls[r]) :
                  calls[r][k] \notin {"miss", "search", "download", "cleanup", "rename"}
            /\ tpc[r] \in {"none", "fetch", "check", "open", "done"}
            /\ Len(calls[r]) >= 3 => calls[r][2] = "hit" /\ calls[r][3] = "open"

\* A later request for a succeeded key that has read the cached file.
C5_Witness ==
    \E r \in Requests :
        /\ prior[r]
        /\ calls[r] = <<"auth", "hit", "open">>
        /\ slot[r].kind = "ok"

\* The calls that go to the remote archive.
NetworkCalls == {"auth", "auth-refused", "search", "download"}

\* C6 as stated: in a pipeline run the cache existence check comes before
\* every call to the remote archive, authentication included, and a run that
\* finds the file makes no such call.
C6_CheckBeforeAnyNetworkCall ==
    \A r \in Requests :
        /\ \A k \in 1..Len(calls[r]) :
              calls[r][k] \in NetworkCalls =>
                  \E j \in 1..(k - 1) : calls[r][j] \in {"hit", "miss"}
        /\ (\E k \in 1..Len(calls[r]) : calls[r][k] = "hit") =>
              \A k \in 1..Len(calls[r]) : calls[r][k] \notin NetworkCalls

\* C6 amended: a run authenticates first, and only then checks the cache;
\* the check comes before every search and download call, and a run that
\* finds the file authenticates once and makes no search or download call.
C6_CheckBeforeSearchAndDownload ==
    \A r \in Requests :
        /\ calls[r] # <<>> => calls[r][1] \in {"auth", "auth-refused"}
        /\ \A k \in 1..Len(calls[r]) :
              /\ calls[r][k] \in {"hit", "miss"} => k = 2 /\ calls[r][1] = "auth"
              /\ calls[r][k] \in {"search", "download"} =>
                    \E j \in 1..(k - 1) : calls[r][j] = "miss"
              /\ calls[r][k] \in {"auth", "auth-refused"} => k = 1
        /\ (\E k \in 1..Len(calls[r]) : calls[r][k] = "hit") =>
              \A k \in 1..Len(calls[r]) : calls[r][k] \notin {"search", "download"}

\* A run that found the file and finished, next to a run that had to search
\* and download.
C6_Witness ==
    /\ \E r \in Requests : calls[r] = <<"auth", "hit", "open">> /\ tpc[r] = "done"
    /\ \E r \in Requests :
          /\ Len(calls[r]) >= 4
          /\ calls[r][2] = "miss" /\ calls[r][3] = "search" /\ calls[r][4] = "download"

\* C7: a cache file that exists is whole and no transfer is writing it.
C7_NoPartialWriteVisible ==
    \A p \in CacheFiles :
        Exists(fs, p) => fs[p].st = "full" /\ fs[p].w = {}

\* The run of r missed the cache, and its own transfer did not fail.
MissedAndFetched(r) ==
    /\ \E k \in 1..Len(calls[r]) : calls[r][k] = "miss"
    /\ got[r] \in {"full", "skipped"}
    /\ tpc[r] = "done"

\* C8: when two requests for the same key both miss the cache and both
\* fetch, neither ends with an error of the transfer check, the rename or
\* the open, and the cache file is whole afterwards.
C8_RaceIsSilent ==
    \A r \in Requests, o \in Requests :
        ( /\ r # o
          /\ MissedAndFetched(r) /\ MissedAndFetched(o)
          /\ CacheFile(query[r]) = CacheFile(query[o]) ) =>
            /\ slot[r].why \notin {"transfer", "rename", "open"}
            /\ "rename" \in Range(calls[r])
            /\ fs[CacheFile(query[r])].st = "full"

\* r takes the step of _search_and_download that finds the transfer bad.
TransferFails(r) == tpc[r] = "validate" /\ slot'[r] = ErrorResult("transfer")

\* C9 as stated, for a transfer of the request's own that yields no file or
\* an empty file: when the pipeline fails on it, no file exists at the cache
\* path of its query.
C9_NoCacheFileAfterBadTransfer ==
    [][\A r \in Requests :
          (TransferFails(r) /\ got[r] \in {"empty", "nofile"}) =>
              ~Exists(fs', CacheFile(query[r]))]_vars

\* Another request for the key of r has renamed its download to the cache path.
CommittedByOther(r) ==
    \E o \in Requests \ {r} :
        /\ WellFormed(query[o])
        /\ CacheFile(query[o]) = CacheFile(query[r])
        /\ "rename" \in Range(calls[o])

\* C9 amended: the step that finds the transfer bad (no file, a missing file
\* or an empty file) ends the pipeline with the transfer error, leaves no file
\* at the download's place and changes no cache file; the failing request
\* never renames, so the cache path of its query holds no file unless another
\* request for the same key has committed one.
C9_BadTransferLeavesCache ==
    [][\A r \in Requests :
          /\ (tpc[r] = "validate" /\ TransferBad(r) /\ tpc'[r] # tpc[r]) =>
                TransferFails(r)
          /\ TransferFails(r) =>
                /\ TransferBad(r)
                /\ tpc'[r] = "done"
                /\ dl[r] # <<>> => ~Exists(fs', dl[r][1])
                /\ \A p \in CacheFiles : fs'[p] = fs[p]
                /\ "rename" \notin Range(calls'[r])
                /\ ~CommittedByOther(r) => ~Exists(fs', CacheFile(query[r]))]_vars

\* A request that failed on an empty file, which it removed, and one that
\* failed because the library returned no file.
C9_Witness ==
    /\ \E r \in Requests :
          /\ slot[r] = ErrorResult("transfer")
          /\ got[r] = "empty"
          /\ ~Exists(fs, dl[r][1])
          /\ ~Exists(fs, CacheFile(query[r]))
    /\ \E r \in Requests :
          /\ slot[r] = ErrorResult("transfer")
          /\ got[r] = "nofile"

\* C10: a refused login is the only call of its run (no second login, no
\* cache check, search, download or rename follows), the run ends with the
\* authentication error, and the stream carries that error as its single
\* error message.
C10_AuthFailureIsFatal ==
    \A r \in Requests :
        (\E k \in 1..Len(calls[r]) : calls[r][k] = "auth-refused") =>
            /\ calls[r] = <<"auth-refused">>
            /\ tpc[r] = "done"
            /\ slot[r] = ErrorResult("auth")
            /\ \A k \in OutcomeFrames(r) : frames[r][k] = ErrorFrame("auth")
            /\ Cardinality(OutcomeFrames(r)) <= 1
            /\ mpc[r] = "closed" =>
                  /\ Cardinality(OutcomeFrames(r)) = 1
                  /\ frames[r][Len(frames[r])].event = "end"

\* A closed stream of a request whose login was refused.
C10_Witness ==
    \E r \in Requests :
        /\ calls[r] = <<"auth-refused">>
        /\ mpc[r] = "closed"
        /\ frames[r][Len(frames[r]) - 1] = ErrorFrame("auth")

\* C11: for every score the pipeline delivers, None taken as 0, the
\* recommended score is max(current - 1, 0), at most the current score and at
\* least 0; and for a current score of 0 the improvement is 0 percent.
C11_RecommendationLaw ==
    fpc = "done" =>
        /\ res.current_score = (IF arg = Null THEN 0 ELSE arg)
        /\ res.recommended_score <= res.current_score
        /\ res.recommended_score >= 0
        /\ res.recommended_score =
              (IF res.current_score >= 10 THEN res.current_score - 10 ELSE 0)
        /\ res.current_score = 0 => res.improvement = 0

\* The recommendation for a score between 0 and 1, where the floor at 0
\* holds the recommended score.
C11_Witness ==
    /\ fpc = "done"
    /\ arg = 5
    /\ res.recommended_score = 0
    /\ res.improvement = 50

\* C12: convert_numpy_types maps every NaN float, at any depth of the value,
\* to None: its result holds no NaN.
C12_NoNaNAfterSanitize ==
    fpc \in {"once", "twice"} => ~HasNaN(res[1])

LastTwo(r) == SubSeq(frames[r], Len(frames[r]) - 1, Len(frames[r]))

\* C14: once the pipeline unit of a request has terminated, with a result,
\* with an error result or by a fault that left the slot unwritten, the
\* stream comes to be closed; and a closed stream ends with its end event,
\* which after a fault says failed and follows the one error message.
C14_StreamEnds ==
    /\ \A r \in Requests : [](Finished(r) => <>(mpc[r] = "closed"))
    /\ [](\A r \in Requests :
             mpc[r] = "closed" =>
                /\ Len(frames[r]) >= 3
                /\ frames[r][Len(frames[r])].event = "end"
                /\ tpc[r] = "dead" =>
                      /\ LastTwo(r) = <<ErrorFrame("KeyError"), EndFrame("failed")>>
                      /\ Cardinality(OutcomeFrames(r)) = 1)

\* A stream closed after a fault of its thread, with the error message and
\* the end event.
C14_Witness ==
    \E r \in Requests :
        /\ tpc[r] = "dead"
        /\ mpc[r] = "closed"
        /\ slot[r] = Unset
        /\ LastTwo(r) = <<ErrorFrame("KeyError"), EndFrame("failed")>>

\* C15: the score does not depend on the dewpoint: two datasets that differ
\* in T2MDEW only yield the same todi_score (and the same temperature and
\* wind), whatever their dewpoint_celsius.
C15_ScoreIgnoresDewpoint ==
    (/\ fpc = "done"
     /\ res[1].raised = ""
     /\ res[2].raised = "") =>
        /\ res[1].todi_score = res[2].todi_score
        /\ res[1].max_temp_celsius = res[2].max_temp_celsius
        /\ res[1].max_wind_speed_ms = res[2].max_wind_speed_ms

\* The datasets of the scenario of 32 degrees and 5 m/s, with dewpoints of
\* 17 and 12 degrees: two dewpoint_celsius, one score.
C15_Witness ==
    /\ fpc = "done"
    /\ arg[1].T2MDEW # arg[2].T2MDEW
    /\ res[1].max_temp_celsius = 3200
    /\ res[1].max_wind_speed_ms = 50
    /\ res[1].dewpoint_celsius = 1700
    /\ res[2].dewpoint_celsius = 1200
    /\ res[1].todi_score = res[2].todi_score
    /\ res[1].todi_score # Null

\* Every request that has come is completed: rejected, or its stream closed.
AllCompleted == \A r \in Requests : mpc[r] \in {"idle", "rejected", "closed"}

\* The request has renamed a download to the cache path of its key.
Committed(r) == WellFormed(query[r]) /\ "rename" \in Range(calls[r])

\* C16: once the requests that have come are completed, the cache directory
\* holds only files under hash names, each the file of a key that a request
\* has committed, and no file under the name of a granule. Stated for the
\* requests whose transfers, if any, were their own and complete.
C16_OnlyHashNamedFiles ==
    (/\ AllCompleted
     /\ \A r \in Requests : got[r] \in {"", "full"}) =>
        \A p \in Paths :
            Exists(fs, p) =>
                /\ p \in CacheFiles
                /\ \E r \in Requests : Committed(r) /\ CacheFile(query[r]) = p

\* The step is the rename of request r onto the cache path p.
RenamesOnto(r, p) ==
    /\ tpc[r] = "commit"
    /\ tpc'[r] = "open"
    /\ CacheFile(query[r]) = p

\* The step is one of request r.
StepOf(r) == tpc'[r] # tpc[r] \/ mpc'[r] # mpc[r]

\* C17 as stated, for a file that no transfer is writing: once it exists at
\* a cache path, no step replaces it, rewrites it or removes it.
C17_CacheFileNeverTouched ==
    [][\A p \in CacheFiles :
          (Exists(fs, p) /\ fs[p].w = {}) =>
              /\ fs'[p] = fs[p]
              /\ \A r \in Requests : ~RenamesOnto(r, p)]_vars

\* C17 amended: once a file exists at a cache path a file exists there ever
\* after, no step removes it; what replaces or rewrites it is a step of a
\* request that had missed the cache, its rename or its transfer still
\* writing the renamed file, and never a step of a request whose existence
\* check found the file.
C17_CacheFileNeverRemoved ==
    [][\A p \in CacheFiles :
          Exists(fs, p) =>
              /\ Exists(fs', p)
              /\ \A r \in Requests :
                    (StepOf(r) /\ (fs'[p] # fs[p] \/ RenamesOnto(r, p))) =>
                        /\ "miss" \in Range(calls[r])
                        /\ "hit" \notin Range(calls[r])
                        /\ tpc[r] \in {"dl0", "dl1", "commit"}]_vars

\* Two requests for one key have each renamed a complete download of their
\* own to the cache path: the second rename replaced the file of the first.
C17_Witness ==
    \E r \in Requests, o \in Requests :
        /\ r # o
        /\ Committed(r)
        /\ Committed(o)
        /\ CacheFile(query[r]) = CacheFile(query[o])
        /\ got[r] = "full"
        /\ got[o] = "full"
        /\ Exists(fs, CacheFile(query[r]))

\* The positions of the progress frames of a stream.
ProgressFrames(r) ==
    { k \in 1..Len(frames[r]) : frames[r][k].kind = "progress" }

ReadsSlot(r) == mpc[r] = "loop" /\ mpc'[r] # "loop"

\* C19: the slot of a request is written at most once, and by a step of its
\* own pipeline unit; the loop reads it only once the unit has finished; and
\* whenever the loop reads the slot, the slot has been written.
C19_SlotWrittenBeforeRead ==
    [][\A r \in Requests :
          /\ slot'[r] # slot[r] =>
                /\ slot[r] = Unset
                /\ tpc[r] \notin {"none", "done", "dead"}
                /\ tpc'[r] = "done"
          /\ ReadsSlot(r) =>
                /\ Finished(r)
                /\ slot[r] # Unset]_vars

\* The four metric arrays of daily_summary.
MetricKeys ==
    {"max_temp_celsius", "dewpoint_celsius", "max_wind_speed_ms", "todi_score"}

\* C20: process_live_data never raises: whatever the login, the search, the
\* transfer, the rename, the open and the extraction meet, a dataset without
\* one of its four variables included, it returns a mapping that has the key
\* error or the key daily_summary, never both and never neither, and the
\* four metric arrays of daily_summary are lists of one item.
C20_ErrorOrSummary ==
    fpc = "done" =>
        /\ res.raised = ""
        /\ res.value[1] = "dict"
        /\ ("error" \in DOMAIN res.value[2]) # ("daily_summary" \in DOMAIN res.value[2])
        /\ "daily_summary" \in DOMAIN res.value[2] =>
              LET summary == res.value[2]["daily_summary"]
              IN  /\ summary[1] = "dict"
                  /\ MetricKeys \subseteq DOMAIN summary[2]
                  /\ \A key \in MetricKeys :
                        /\ summary[2][key][1] = "list"
                        /\ Len(summary[2][key][2]) = 1

\* The error mapping for a cached dataset that lacks T2MDEW alone.
C20_Witness ==
    /\ fpc = "done"
    /\ arg.cached
    /\ arg.ds.T2M # <<>>
    /\ arg.ds.U10M # <<>>
    /\ arg.ds.V10M # <<>>
    /\ arg.ds.T2MDEW = <<>>
    /\ res = Returned(Dict([error |-> Str("ValueError")]))

=============================================================================
